---- MODULE Spec2Model ----
(***************************************************************************)
(* Model of the autopilot decision engine of phill118/autopilot-final.     *)
(*                                                                         *)
(* The engine modelled is the one server.js imports: the first             *)
(* runAutopilot of src/autopilotEngine.js (lines 1-328).  One run is a     *)
(* process whose steps are the awaits of the source: it reads the active   *)
(* events, the shop row and the product rows, and then for every product   *)
(* reads the performance snapshot, takes the price decision (rule engine,  *)
(* feedback gate, audit log), posts the price update in full mode and      *)
(* takes the marketing decision.                                           *)
(*                                                                         *)
(* Prices are exact decimals counted in mills (1/1000 of the currency      *)
(* unit); rates are counted in 1/1000.  The price texts of the model are   *)
(* chosen so that IEEE double arithmetic and exact decimal arithmetic      *)
(* give the same rounded results for every multiplier of the source.       *)
(***************************************************************************)
EXTENDS Integers, Sequences, FiniteSets, TLC

\* ------------------------------------------------------------------ bounds
MaxProducts == 2      \* rows of the products table of the shop
MaxFaults == 1        \* storage calls that answer with an error in one run
MaxApproved == 1      \* 'approved' feedback rows per (product, action)
MaxRejected == 6      \* 'rejected' feedback rows per (product, action)
MaxReviews == 2       \* requests to POST /update
MaxPriceCalls == 1    \* requests of clients to POST /update-price
MaxVerdicts == 10     \* feedback rows of one verdict in the history of an advised shop
MaxAdviceCalls == 1   \* requests to GET /advice

\* ------------------------------------------------------- program constants
\* thresholds of the rule engine, in 1/1000
StrongMargin == 250
StrongConv == 80
WeakConv == 20
LowInventory == 5
WinnerConv == 50
GateFactor == 2

Shop == "s1.myshopify.com"

Modes == {"manual", "assist", "full"}
Risks == {"safe", "normal", "aggressive"}

\* --------------------------------------------------------------- strings
\* A title or keyword is a sequence of characters.
Lower(c) ==
  CASE c = "A" -> "a" [] c = "H" -> "h" [] c = "M" -> "m" [] c = "T" -> "t"
    [] c = "U" -> "u" [] c = "G" -> "g" [] OTHER -> c

toLowerCase(s) == [k \in DOMAIN s |-> Lower(s[k])]

includes(s, t) ==
  \E k \in 0..(Len(s) - Len(t)) : SubSeq(s, k + 1, k + Len(t)) = t

\* ---------------------------------------------------------------- prices
\* A stored price is a decimal numeral: integer part and fractional digits.
PriceText(i, f) == [int |-> i, frac |-> f]

\* parseFloat(p.price), in mills
parseFloat(t) ==
  t.int * 1000
  + (IF Len(t.frac) >= 1 THEN t.frac[1] * 100 ELSE 0)
  + (IF Len(t.frac) >= 2 THEN t.frac[2] * 10 ELSE 0)
  + (IF Len(t.frac) >= 3 THEN t.frac[3] ELSE 0)

\* An intermediate price is the exact fraction num/den of a mill.
Num(m) == [num |-> m, den |-> 1]
Times(x, pct) == [num |-> x.num * pct, den |-> x.den * 100]

\* Math.round(x * 100) / 100, in mills
Round2(x) == ((x.num + 5 * x.den) \div (10 * x.den)) * 10

\* ------------------------------------------------------------- row shapes
NoPerf == [present |-> FALSE, conversion_rate |-> 0, profit_margin |-> 0]
Perf(c, m) == [present |-> TRUE, conversion_rate |-> c, profit_margin |-> m]

\* start_date is the day number of the first day of the event
NoEvent == [present |-> FALSE, name |-> "", has_keywords |-> FALSE,
            product_keywords |-> << >>, start_date |-> 0]
Event(n, kws) == [present |-> TRUE, name |-> n, has_keywords |-> TRUE,
                  product_keywords |-> kws, start_date |-> 1]
EventNoKeywords(n) == [present |-> TRUE, name |-> n, has_keywords |-> FALSE,
                       product_keywords |-> << >>, start_date |-> 1]
EventFrom(e, day) == [e EXCEPT !.start_date = day]

NoShop == [present |-> FALSE, autopilot_mode |-> "", risk_level |-> ""]
ShopRow(m, r) == [present |-> TRUE, autopilot_mode |-> m, risk_level |-> r]

Product(id, title, price, inv) ==
  [shop_domain |-> Shop, shopify_product_id |-> id, title |-> title,
   price |-> price, inventory_quantity |-> inv]

FeedbackRow(pid, action, fb) ==
  [shop_domain |-> Shop, product_id |-> pid, action |-> action, feedback |-> fb]

\* ------------------------------------------------------ getFeedbackTrends
matchesFiltersAnyAction(f, shop_domain, product_id, action) ==
  /\ f.shop_domain = shop_domain
  /\ f.product_id = product_id

\* .eq("shop_domain", shop).eq("product_id", productId).eq("action", action)
matchesFilters(f, shop_domain, product_id, action) ==
  /\ f.shop_domain = shop_domain
  /\ f.product_id = product_id
  /\ f.action = action

\* The rows of ai_feedback selected by the three equality filters.
\* Variant of the select that keeps only the three latest matching rows.
SelectFeedbackRecent(rows, shop_domain, product_id, action) ==
  LET all == SelectSeq(rows, LAMBDA f :
                               matchesFilters(f, shop_domain, product_id, action))
  IN IF Len(all) > 3 THEN SubSeq(all, Len(all) - 2, Len(all)) ELSE all

SelectFeedback(rows, shop_domain, product_id, action) ==
  SelectSeq(rows, LAMBDA f : matchesFilters(f, shop_domain, product_id, action))

CountFeedback(data, fb) == Len(SelectSeq(data, LAMBDA f : f.feedback = fb))

\* Variant of getFeedbackTrends that counts a failed read as one rejection.
getFeedbackTrendsErrorRejects(rows, shop_domain, product_id, action, readOk) ==
  IF ~readOk
  THEN [approved |-> 0, rejected |-> 1]
  ELSE LET data == SelectFeedback(rows, shop_domain, product_id, action)
       IN [approved |-> CountFeedback(data, "approved"),
           rejected |-> CountFeedback(data, "rejected")]

\* readOk = FALSE is the branch taken when the query answers with an error.
getFeedbackTrends(rows, shop_domain, product_id, action, readOk) ==
  IF ~readOk
  THEN [approved |-> 0, rejected |-> 0]
  ELSE LET data == SelectFeedback(rows, shop_domain, product_id, action)
       IN [approved |-> CountFeedback(data, "approved"),
           rejected |-> CountFeedback(data, "rejected")]

\* Variant of the gate test that also suppresses at the boundary.
gateSuppressesAtBoundary(trend) ==
  trend.rejected >= trend.approved * GateFactor

\* The test of the feedback gate, the same for prices and ad boosts.
gateSuppresses(trend) == trend.rejected > trend.approved * GateFactor

\* ------------------------------------------------------------ rule engine
\* event && event.product_keywords?.some(k => title.toLowerCase().includes(k.toLowerCase()))
matchesEvent(product, event) ==
  /\ event.present
  /\ event.has_keywords
  /\ \E k \in 1..Len(event.product_keywords) :
        includes(toLowerCase(product.title),
                 toLowerCase(event.product_keywords[k]))

\* performance?.conversion_rate ?? 0 and performance?.profit_margin ?? 0
convOf(performance) ==
  IF performance.present THEN performance.conversion_rate ELSE 0
marginOf(performance) ==
  IF performance.present THEN performance.profit_margin ELSE 0

calculateOptimalPriceSafeCuts(product, performance, event, riskLevel) ==
  LET price == parseFloat(product.price)
      conv == convOf(performance)
      margin == marginOf(performance)
      winning ==
        IF margin > StrongMargin /\ conv > StrongConv
        THEN Times(Num(price), IF riskLevel = "aggressive" THEN 112 ELSE 108)
        ELSE Num(price)
      underperformer ==
        IF conv < WeakConv
        THEN Times(Num(price), IF riskLevel = "aggressive" THEN 90 ELSE 95)
        ELSE winning
      lowStock ==
        IF product.inventory_quantity < LowInventory
        THEN Times(Num(price), IF riskLevel = "safe" THEN 95 ELSE 110)
        ELSE underperformer
      seasonal ==
        IF matchesEvent(product, event)
        THEN Times(lowStock, IF riskLevel = "aggressive" THEN 120 ELSE 115)
        ELSE lowStock
  IN Round2(seasonal)

calculateOptimalPrice(product, performance, event, riskLevel) ==
  LET price == parseFloat(product.price)
      conv == convOf(performance)
      margin == marginOf(performance)
      winning ==
        IF margin > StrongMargin /\ conv > StrongConv
        THEN Times(Num(price), IF riskLevel = "aggressive" THEN 112 ELSE 108)
        ELSE Num(price)
      underperformer ==
        IF conv < WeakConv
        THEN Times(Num(price), IF riskLevel = "aggressive" THEN 90 ELSE 95)
        ELSE winning
      lowStock ==
        IF product.inventory_quantity < LowInventory
        THEN Times(Num(price), IF riskLevel = "safe" THEN 105 ELSE 110)
        ELSE underperformer
      seasonal ==
        IF matchesEvent(product, event)
        THEN Times(lowStock, IF riskLevel = "aggressive" THEN 120 ELSE 115)
        ELSE lowStock
  IN Round2(seasonal)

\* The clauses of the reason string, in the order they are appended.
generateReason(product, performance, newPrice_, oldPrice, event) ==
  << IF newPrice_ > oldPrice THEN "increase" ELSE "decrease" >>
  \o (IF performance.present /\ performance.conversion_rate > StrongConv
      THEN << "high_conversion" >> ELSE << >>)
  \o (IF performance.present /\ performance.conversion_rate < WeakConv
      THEN << "low_conversion" >> ELSE << >>)
  \o (IF performance.present /\ performance.profit_margin > StrongMargin
      THEN << "good_margin" >> ELSE << >>)
  \o (IF product.inventory_quantity < LowInventory
      THEN << "low_inventory" >> ELSE << >>)
  \o (IF matchesEvent(product, event) THEN << "seasonal" >> ELSE << >>)

\* The baseline winner rule of the marketing decision.
isWinner(product, performance, event) ==
  \/ convOf(performance) > WinnerConv /\ marginOf(performance) > StrongMargin
  \/ matchesEvent(product, event)

\* ------------------------------------------------------------------ state
VARIABLES
  products,              \* table "products": rows of the shop, in the order the query returns them
  product_performance,   \* table "product_performance": product id -> snapshot or NoPerf
  seasonal_events,       \* table "seasonal_events": the rows with active = true, in the order the query returns them
  shops,                 \* table "shops": the row of the shop, or NoShop
  ai_feedback,           \* table "ai_feedback": rows
  ai_actions,            \* table "ai_actions": rows, in insertion order
  pc,                    \* position of the run
  activeEvent, mode, risk, runProducts, idx,  \* locals of runAutopilot
  perf, newPrice, priceChanged, priceTrend,   \* locals of the loop body
  analyzed, priceSuggestions, applied, skippedDueToFeedback, marketingSuggestions,
  result,                \* what the run returned or threw
  logCalls,              \* the calls of logAIAction made by the run, in order
  fetchCalls,            \* the POSTs to /api/shopify/update-price made by the run, in order
  faults,                \* storage calls that have answered with an error
  run,                   \* 1 in the first run of the shop, 2 in the run that follows it
  decisions,             \* the price decisions of this run, one per product, in order
  previous,              \* the price decisions of the run before this one
  updateCalls,           \* the requests to POST /update with their answers, in order
  other,                 \* the locals of the other run of the shop while this one takes its steps
  priceCalls,            \* the requests of clients to POST /update-price with their answers
  adviceCalls            \* the requests to GET /advice with their answers

stores == << products, product_performance, seasonal_events, shops, ai_feedback >>
config == << activeEvent, mode, risk, runProducts >>
body == << perf, newPrice, priceChanged, priceTrend >>
counters == << analyzed, priceSuggestions, applied, skippedDueToFeedback,
               marketingSuggestions >>
trail == << run, decisions, previous, updateCalls, other, priceCalls,
           adviceCalls >>
vars == << trail, stores, ai_actions, pc, config, idx, body, counters, result,
           logCalls, fetchCalls, faults >>

\* ------------------------------------------------------------ input data
Hat == << "H", "a", "t" >>
Mug == << "M", "u", "g" >>

\* keyword lists of an event: "hA" occurs in "Hat" up to case, "x" in no title
KeywordLists == { << << "h", "A" >> >>, << << "x" >> >>,
                  << << "x" >>, << "U", "G" >> >> }

PriceTexts == { PriceText(100, << 0, 0 >>), PriceText(19, << 9, 9 >>),
                PriceText(20, << >>), PriceText(10, << 0, 0, 4 >>),
                PriceText(0, << 0, 5 >>) }

PerfCases == { NoPerf, Perf(100, 300), Perf(10, 100), Perf(60, 300),
               Perf(80, 250), Perf(20, 300) }

\* The product with identifier id in the catalogue of the shop.
CatalogueRow(id) ==
  IF id % 2 = 1 THEN Product(id, Hat, PriceText(100, << 0, 0 >>), 20)
                ELSE Product(id, Mug, PriceText(19, << 9, 9 >>), 3)

\* The tables of at most MaxProducts rows, in identifier order.
RECURSIVE TableOf(_, _)
TableOf(ids, from) ==
  IF from > MaxProducts THEN << >>
  ELSE (IF from \in ids THEN << CatalogueRow(from) >> ELSE << >>)
       \o TableOf(ids, from + 1)

ProductTables == { TableOf(ids, 1) : ids \in SUBSET (1..MaxProducts) }

\* a approved rows followed by r rejected rows for (pid, action)
FeedbackRows(pid, action, a, r) ==
  [k \in 1..(a + r) |->
     FeedbackRow(pid, action, IF k <= a THEN "approved" ELSE "rejected")]

RECURSIVE Concat(_, _)
Concat(f, n) == IF n = 0 THEN << >> ELSE Concat(f, n - 1) \o f[n]

ShopRows == { ShopRow(m, r) : m \in Modes, r \in Risks }
              \cup { NoShop, ShopRow("", ""), ShopRow("full", ""),
                     ShopRow("", "aggressive") }

\* ------------------------------------------------------------------- Init
NoTrend == [approved |-> 0, rejected |-> 0]
NoResult == [state |-> "running", ok |-> FALSE, analyzed |-> 0,
             price_suggestions |-> 0, applied |-> 0,
             skipped_due_to_feedback |-> 0, marketing_suggestions |-> 0,
             error |-> ""]

\* The state of a run that has not started, over a fresh ai_actions table.
\* The locals of run n before its first step; at "none" it was not requested.
FreshRun(n, at) ==
  [pc |-> at, activeEvent |-> NoEvent, mode |-> "", risk |-> "",
   runProducts |-> << >>, idx |-> 0, perf |-> NoPerf, newPrice |-> 0,
   priceChanged |-> FALSE, priceTrend |-> NoTrend, analyzed |-> 0,
   priceSuggestions |-> 0, applied |-> 0, skippedDueToFeedback |-> 0,
   marketingSuggestions |-> 0, result |-> NoResult, logCalls |-> << >>,
   fetchCalls |-> << >>, run |-> n, decisions |-> << >>, previous |-> << >>]

InitRun ==
  /\ ai_actions = << >>
  /\ pc = "events"
  /\ activeEvent = NoEvent /\ mode = "" /\ risk = "" /\ runProducts = << >>
  /\ idx = 0
  /\ perf = NoPerf /\ newPrice = 0 /\ priceChanged = FALSE
  /\ priceTrend = NoTrend
  /\ analyzed = 0 /\ priceSuggestions = 0 /\ applied = 0
  /\ skippedDueToFeedback = 0 /\ marketingSuggestions = 0
  /\ result = NoResult
  /\ logCalls = << >> /\ fetchCalls = << >>
  /\ run = 1 /\ decisions = << >> /\ previous = << >>
  /\ updateCalls = << >>
  /\ other = FreshRun(2, "none")
  /\ priceCalls = << >>
  /\ adviceCalls = << >>

IdsOf(table) == { table[k].shopify_product_id : k \in DOMAIN table }

\* What is stored about one product of a scenario: its snapshot and the
\* approved/rejected counts of its price and ad-boost feedback.
ProductCase(pf, pa, pr, aa, ar) ==
  [perf |-> pf, price |-> << pa, pr >>, ad |-> << aa, ar >>]

ProductCases ==
  { ProductCase(Perf(100, 300), 0, 0, 0, 0),
    ProductCase(Perf(100, 300), 1, 3, 0, 0),
    ProductCase(Perf(100, 300), 0, 0, 0, 1),
    ProductCase(NoPerf, 0, 0, 0, 0) }

AbsentCase == ProductCase(NoPerf, 0, 0, 0, 0)

\* Shops of up to MaxProducts catalogue products, each in one of the product
\* cases, under every shop row; storage calls may fail.
InitScenarios ==
  /\ products \in ProductTables
  /\ \E c \in [1..MaxProducts -> ProductCases] :
       /\ \A id \in 1..MaxProducts :
            id \notin IdsOf(products) => c[id] = AbsentCase
       /\ product_performance = [id \in 1..MaxProducts |-> c[id].perf]
       /\ ai_feedback =
            Concat([id \in 1..MaxProducts |->
                      FeedbackRows(id, "price_adjustment",
                                   c[id].price[1], c[id].price[2])
                      \o FeedbackRows(id, "ad_boost_suggested",
                                      c[id].ad[1], c[id].ad[2])],
                   MaxProducts)
  /\ seasonal_events = {}
  /\ shops \in ShopRows
  /\ faults = 0

\* Shops of up to MaxProducts catalogue products without feedback, each with
\* a strong snapshot or none, in a suggesting and in an applying
\* configuration; storage calls and price updates may fail.
InitLoop ==
  /\ products \in ProductTables
  /\ \E strong \in SUBSET IdsOf(products) :
       product_performance = [id \in 1..MaxProducts |->
                                IF id \in strong THEN Perf(100, 300)
                                ELSE NoPerf]
  /\ ai_feedback = << >>
  /\ seasonal_events = {}
  /\ shops \in { ShopRow("assist", "normal"), ShopRow("full", "normal") }
  /\ faults = 0

\* The shops of InitScenarios under four shop rows, with a store that
\* answers every call.
InitRerun ==
  /\ products \in ProductTables
  /\ \E c \in [1..MaxProducts -> ProductCases] :
       /\ \A id \in 1..MaxProducts :
            id \notin IdsOf(products) => c[id] = AbsentCase
       /\ product_performance = [id \in 1..MaxProducts |-> c[id].perf]
       /\ ai_feedback =
            Concat([id \in 1..MaxProducts |->
                      FeedbackRows(id, "price_adjustment",
                                   c[id].price[1], c[id].price[2])
                      \o FeedbackRows(id, "ad_boost_suggested",
                                      c[id].ad[1], c[id].ad[2])],
                   MaxProducts)
  /\ seasonal_events = {}
  /\ shops \in { ShopRow("assist", "normal"), ShopRow("full", "safe"),
                 ShopRow("full", "normal"), ShopRow("full", "aggressive") }
  /\ faults = MaxFaults

\* One strong performer without feedback in a suggesting and in an applying
\* shop; one storage call may fail.
InitReview ==
  /\ products = << CatalogueRow(1) >>
  /\ product_performance = [id \in 1..MaxProducts |->
                              IF id = 1 THEN Perf(100, 300) ELSE NoPerf]
  /\ ai_feedback = << >>
  /\ seasonal_events = {}
  /\ shops \in { ShopRow("assist", "normal"), ShopRow("full", "normal") }
  /\ faults = MaxFaults - 1

\* One product that no rule moves (conversion 0.06, margin 0.30, stock 20,
\* no event) with every history of price feedback within the bounds.
InitQuiet ==
  /\ products = << CatalogueRow(1) >>
  /\ product_performance = [id \in 1..MaxProducts |->
                              IF id = 1 THEN Perf(60, 300) ELSE NoPerf]
  /\ \E pa \in 0..MaxApproved, pr \in 0..MaxRejected :
       ai_feedback = FeedbackRows(1, "price_adjustment", pa, pr)
  /\ seasonal_events = {}
  /\ shops \in { ShopRow("assist", "normal"), ShopRow("full", "aggressive") }
  /\ faults = MaxFaults

\* One strong performer without feedback in a suggesting and in an applying
\* shop, with a store that answers every call.
InitOverlap ==
  /\ products = << CatalogueRow(1) >>
  /\ product_performance = [id \in 1..MaxProducts |->
                              IF id = 1 THEN Perf(100, 300) ELSE NoPerf]
  /\ ai_feedback = << >>
  /\ seasonal_events = {}
  /\ shops \in { ShopRow("assist", "normal"), ShopRow("full", "normal") }
  /\ faults = MaxFaults

\* The events flagged active at the same time, starting on different days.
ActiveEvents ==
  { EventFrom(Event("Xmas", << << "h", "A" >> >>), 1),
    EventFrom(Event("Easter", << << "U", "G" >> >>), 2),
    EventFrom(Event("Sale", << << "x" >> >>), 3) }

\* A hat and a mug without feedback, any of the events flagged active.
InitEvents ==
  /\ products = << CatalogueRow(1), CatalogueRow(2) >>
  /\ \E pf \in { NoPerf, Perf(100, 300), Perf(60, 300) } :
       product_performance = [id \in 1..MaxProducts |-> pf]
  /\ ai_feedback = << >>
  /\ seasonal_events \in SUBSET ActiveEvents
  /\ shops \in { ShopRow("assist", "normal"), ShopRow("full", "normal") }
  /\ faults = MaxFaults

\* One strong performer in a shop with a history of up to MaxVerdicts
\* approved and MaxVerdicts rejected reviews of its price suggestions, with
\* or without a row of another verdict and a row of another shop.
InitAdvice ==
  /\ products = << CatalogueRow(1) >>
  /\ product_performance = [id \in 1..MaxProducts |->
                              IF id = 1 THEN Perf(100, 300) ELSE NoPerf]
  /\ \E a \in 0..MaxVerdicts, r \in 0..MaxVerdicts, more \in BOOLEAN :
       ai_feedback =
         FeedbackRows(1, "price_adjustment", a, r)
         \o (IF more
             THEN << FeedbackRow(1, "price_adjustment", "pending"),
                     [ FeedbackRow(1, "price_adjustment", "approved")
                         EXCEPT !.shop_domain = "s2.myshopify.com" ] >>
             ELSE << >>)
  /\ seasonal_events = {}
  /\ shops \in { ShopRow("manual", "normal"), ShopRow("full", "normal") }
  /\ faults = MaxFaults - 1

\* Rows the three filters of getFeedbackTrends must leave out.
NoiseRows ==
  << FeedbackRow(1, "price_applied", "rejected"),
     FeedbackRow(2, "price_adjustment", "rejected"),
     FeedbackRow(1, "price_adjustment", "pending"),
     [ FeedbackRow(1, "price_adjustment", "rejected")
         EXCEPT !.shop_domain = "s2.myshopify.com" ] >>

\* One strong performer with every feedback history within the bounds.
InitGate ==
  /\ products = << CatalogueRow(1) >>
  /\ product_performance = [id \in 1..MaxProducts |->
                              IF id = 1 THEN Perf(100, 300) ELSE NoPerf]
  /\ \E pa \in 0..MaxApproved, pr \in 0..MaxRejected,
        aa \in 0..MaxApproved, ar \in 0..MaxRejected, noise \in BOOLEAN :
       ai_feedback =
         FeedbackRows(1, "price_adjustment", pa, pr)
         \o FeedbackRows(1, "ad_boost_suggested", aa, ar)
         \o (IF noise THEN NoiseRows ELSE << >>)
  /\ seasonal_events = {}
  /\ shops \in { ShopRow(m, r) : m \in { "assist", "full" }, r \in Risks }
               \cup { ShopRow("", "") }
  /\ faults = MaxFaults

\* One product with every combination of price, stock, title, snapshot and
\* event of the input sets, and no feedback.
InitPrice ==
  /\ \E title \in { Hat, Mug }, price \in PriceTexts, inv \in { 0, 4, 5, 20 } :
       products = << Product(1, title, price, inv) >>
  /\ \E pf \in PerfCases :
       product_performance = [id \in 1..MaxProducts |->
                                IF id = 1 THEN pf ELSE NoPerf]
  /\ ai_feedback = << >>
  /\ seasonal_events \in
       { {}, { EventNoKeywords("Xmas") } }
       \cup { { Event("Xmas", kws) } : kws \in KeywordLists }
  /\ shops \in { ShopRow(m, r) : m \in { "assist", "full" }, r \in Risks }
  /\ faults = MaxFaults

Init == InitRun /\ (InitScenarios \/ InitGate \/ InitPrice \/ InitQuiet)

\* ------------------------------------------------------------ collaborators
\* A storage call answers (ok) or answers with an error; at most MaxFaults
\* calls of a run answer with an error.
CanAnswer(oks) ==
  faults + Cardinality({ k \in DOMAIN oks : ~oks[k] }) <= MaxFaults
Charge(oks) ==
  faults' = faults + Cardinality({ k \in DOMAIN oks : ~oks[k] })

logAIActionReplacesRows(rows, insertOk) ==
  /\ logCalls' = logCalls \o rows
  /\ ai_actions' = IF insertOk /\ rows # << >> THEN rows ELSE ai_actions

\* logAIAction: the insert is attempted; an error is printed and dropped.
logAIAction(rows, insertOk) ==
  /\ logCalls' = logCalls \o rows
  /\ ai_actions' = IF insertOk THEN ai_actions \o rows ELSE ai_actions

logAIActionThrowsOnError(insertOk) == insertOk

\* logAIAction returns to its caller: an insert error is printed, not thrown.
logAIActionReturns(insertOk) == TRUE

ActionRow(product_id, action, details, reason, status) ==
  [shop_domain |-> Shop, product_id |-> product_id, action |-> action,
   details |-> details, reason |-> reason, status |-> status]

\* A number with two decimals written back as a stored price.
NumberToText(m) ==
  PriceText(m \div 1000, << (m \div 100) % 10, (m \div 10) % 10 >>)

\* POST /update-price, step 4c: the products rows matched by the two filters
\* get the new price.
\* Variant of the write that leaves out the filter on the product.
SetPriceOfShop(table, shop_domain, product_id, new_price) ==
  [k \in DOMAIN table |->
     IF table[k].shop_domain = shop_domain
     THEN [table[k] EXCEPT !.price = NumberToText(new_price)]
     ELSE table[k]]

SetPrice(table, shop_domain, product_id, new_price) ==
  [k \in DOMAIN table |->
     IF table[k].shop_domain = shop_domain
        /\ table[k].shopify_product_id = product_id
     THEN [table[k] EXCEPT !.price = NumberToText(new_price)]
     ELSE table[k]]

\* --------------------------------------------------------------- the run
P == runProducts[idx]

\* 1. Seasonal event: the first row the unordered query returns, or null.
ReadEvents ==
  /\ pc = "events"
  /\ \E ok \in BOOLEAN :
       /\ CanAnswer(<< ok >>) /\ Charge(<< ok >>)
       /\ IF ok /\ seasonal_events # {}
          THEN activeEvent' \in seasonal_events
          ELSE activeEvent' = NoEvent
  /\ pc' = "shop"
  /\ UNCHANGED << trail, stores, ai_actions, mode, risk, runProducts, idx, body,
                  counters, result, logCalls, fetchCalls >>

\* 2. Shop mode + risk level, with the defaults of the || operators.
modeOfDefaultFull(shopInfo) ==
  IF shopInfo.present /\ shopInfo.autopilot_mode # ""
  THEN shopInfo.autopilot_mode ELSE "full"

\* shopInfo?.autopilot_mode || "manual"
modeOf(shopInfo) ==
  IF shopInfo.present /\ shopInfo.autopilot_mode # ""
  THEN shopInfo.autopilot_mode ELSE "manual"

\* shopInfo?.risk_level || "normal"
riskOf(shopInfo) ==
  IF shopInfo.present /\ shopInfo.risk_level # ""
  THEN shopInfo.risk_level ELSE "normal"

modeOfRunReadAgain(m, row) == modeOf(row)

\* The mode a product is evaluated under: the constant read before the
\* loop, whatever the shops row holds by then.
modeOfRun(m, row) == m

ReadShop ==
  /\ pc = "shop"
  /\ \E ok \in BOOLEAN :
       /\ CanAnswer(<< ok >>) /\ Charge(<< ok >>)
       /\ LET shopInfo == IF ok THEN shops ELSE NoShop
          IN /\ mode' = modeOf(shopInfo)
             /\ risk' = riskOf(shopInfo)
  /\ pc' = "products"
  /\ UNCHANGED << trail, stores, ai_actions, activeEvent, runProducts, idx, body,
                  counters, result, logCalls, fetchCalls >>

productsUsableWhenEmpty(ok, rows) == ok

\* Neither `if (prodErr) throw prodErr` nor `if (!products?.length) throw`
\* fires.
productsUsable(ok, rows) == ok /\ Len(rows) > 0

\* 3. Get products; an error or an empty result is thrown.  The loop over
\* an empty list would run no iteration.
ReadProducts ==
  /\ pc = "products"
  /\ \E ok \in BOOLEAN :
       /\ CanAnswer(<< ok >>) /\ Charge(<< ok >>)
       /\ IF productsUsable(ok, products)
          THEN /\ runProducts' = products
               /\ idx' = 1
               /\ pc' = IF Len(products) > 0 THEN "perf" ELSE "return"
               /\ result' = result
          ELSE /\ pc' = "failed"
               /\ result' = [result EXCEPT !.state = "thrown",
                               !.error = IF ok THEN "No products found."
                                         ELSE "storage error"]
               /\ UNCHANGED << runProducts, idx >>
  /\ UNCHANGED << trail, stores, ai_actions, activeEvent, mode, risk, body,
                  counters, logCalls, fetchCalls >>

\* 4. Head of the loop body: count the product, read its snapshot.
ReadPerf ==
  /\ pc = "perf"
  /\ analyzed' = analyzed + 1
  /\ \E ok \in BOOLEAN :
       /\ CanAnswer(<< ok >>) /\ Charge(<< ok >>)
       /\ perf' = IF ok THEN product_performance[P.shopify_product_id]
                  ELSE NoPerf
  /\ pc' = "price"
  /\ UNCHANGED << trail, stores, ai_actions, config, idx, newPrice, priceChanged,
                  priceTrend, priceSuggestions, applied, skippedDueToFeedback,
                  marketingSuggestions, result, logCalls, fetchCalls >>

\* Variant of the price decision that tests the change before the gate.
priceBranchChangeFirst(trend, changed) ==
  IF changed THEN "suggest"
  ELSE IF gateSuppresses(trend) THEN "skip"
  ELSE "none"

\* The branch of the price decision: the gate is tested first, then the change.
priceBranch(trend, changed) ==
  IF gateSuppresses(trend) THEN "skip"
  ELSE IF changed THEN "suggest"
  ELSE "none"

autoApplyOutsideManual(mode_, risk_) == mode_ # "manual" /\ risk_ # "safe"

\* Apply automatically in FULL mode (except safe risk).
autoApply(mode_, risk_) == mode_ = "full" /\ risk_ # "safe"

adjustmentStatus(mode_, risk_) ==
  IF autoApply(mode_, risk_) THEN "pending_apply" ELSE "suggested"

SkipRow(p, np) ==
  ActionRow(p.shopify_product_id, "price_skipped_due_to_feedback",
            [old_price |-> p.price, suggested_price |-> np],
            << "Skipped due to repeated user rejection." >>, "skipped")

AdjustmentRow(p, pf, np, ev, mode_, risk_) ==
  ActionRow(p.shopify_product_id, "price_adjustment",
            [old_price |-> p.price, new_price |-> np, mode |-> mode_,
             risk |-> risk_],
            generateReason(p, pf, np, parseFloat(p.price), ev),
            adjustmentStatus(mode_, risk_))

AppliedRow(p, np, mode_, risk_) ==
  ActionRow(p.shopify_product_id, "price_applied",
            [new_price |-> np, mode |-> mode_, risk |-> risk_],
            << "Applied automatically due to Full AI mode." >>, "completed")

\* The rows the price decision hands to logAIAction.
priceRows(branch, p, pf, np, ev, mode_, risk_) ==
  CASE branch = "skip" -> << SkipRow(p, np) >>
    [] branch = "suggest" -> << AdjustmentRow(p, pf, np, ev, mode_, risk_) >>
    [] OTHER -> << >>

\* Price decision and 4a, price feedback.
afterPriceDecisionSkipLeaves(branch, mode_, risk_) ==
  IF branch = "skip" THEN "return"
  ELSE IF branch = "suggest" /\ autoApply(mode_, risk_) THEN "apply"
  ELSE "marketing"

\* Where the body goes after the price decision: into the apply block, or
\* on to the marketing decision (the skip branch does not leave the body).
afterPriceDecision(branch, mode_, risk_) ==
  IF branch = "suggest" /\ autoApply(mode_, risk_) THEN "apply"
  ELSE "marketing"

suggestionsOfAnyBranch(branch) == IF branch # "none" THEN 1 ELSE 0

\* priceSuggestions++ stands in the branch that logs the price_adjustment.
suggestionsOf(branch) == IF branch = "suggest" THEN 1 ELSE 0

\* What a run decided about the price of a product: the candidate it
\* computed, the candidate at scale factor 1.0 and the verdict of the
\* feedback gate on the counts it read.
Decision(p, pf, event, np, trend) ==
  [product_id |-> p.shopify_product_id, price |-> np,
   base |-> calculateOptimalPrice(p, pf, event, "normal"),
   suppressed |-> gateSuppresses(trend)]

PriceDecision ==
  /\ pc = "price"
  /\ \E readOk \in BOOLEAN, insertOk \in BOOLEAN :
       LET currentPrice == parseFloat(P.price)
           np == calculateOptimalPrice(P, perf, activeEvent, risk)
           changed == np # currentPrice
           trend == getFeedbackTrends(ai_feedback, Shop, P.shopify_product_id,
                                      "price_adjustment", readOk)
           branch == priceBranch(trend, changed)
       IN /\ branch = "none" => insertOk
          /\ CanAnswer(<< readOk, insertOk >>) /\ Charge(<< readOk, insertOk >>)
          /\ newPrice' = np
          /\ priceChanged' = changed
          /\ priceTrend' = trend
          /\ decisions' = Append(decisions, Decision(P, perf, activeEvent, np, trend))
          /\ skippedDueToFeedback' =
               skippedDueToFeedback + (IF branch = "skip" THEN 1 ELSE 0)
          /\ priceSuggestions' =
               priceSuggestions + suggestionsOf(branch)
          /\ logAIAction(priceRows(branch, P, perf, np, activeEvent,
                                   modeOfRun(mode, shops), risk),
                         insertOk)
          /\ pc' = IF ~logAIActionReturns(insertOk) THEN "failed"
                   ELSE afterPriceDecision(branch, modeOfRun(mode, shops), risk)
  /\ UNCHANGED << stores, config, idx, perf, analyzed, applied,
                  marketingSuggestions, result, fetchCalls, run, previous,
                  updateCalls, other, priceCalls, adviceCalls >>

\* What the handler of POST /update-price meets on its way: the shop row
\* holds a token, the product fetch answers ok, the product has a variant,
\* the variant update answers ok. A step that is not reached counts as TRUE.
RemoteAnswers ==
  { [token |-> t, product |-> p, variant |-> v, put |-> u] :
      t \in BOOLEAN, p \in BOOLEAN, v \in BOOLEAN, u \in BOOLEAN }

Reached(r) ==
  /\ ~r.token => r.product
  /\ ~r.product => r.variant
  /\ ~r.variant => r.put

\* POST /update-price up to its answer: the status, and the number of calls
\* sent to the remote shop. shop "", product id 0 and new price 0 are the
\* values the handler takes for missing.
updatePrice(shop, product_id, new_price, r) ==
  IF shop = "" \/ product_id = 0 \/ new_price = 0
  THEN [status |-> 400, ok |-> FALSE, remote |-> 0]
  ELSE IF ~r.token THEN [status |-> 401, ok |-> FALSE, remote |-> 0]
  ELSE IF ~r.product \/ ~r.variant THEN [status |-> 500, ok |-> FALSE, remote |-> 1]
  ELSE IF ~r.put THEN [status |-> 500, ok |-> FALSE, remote |-> 2]
  ELSE [status |-> 200, ok |-> TRUE, remote |-> 2]

writesPriceWithToken(answer) == answer.status \notin { 400, 401 }

\* Step 4c, the write of the stored price, stands after the checks of both
\* remote answers.
writesPrice(answer) == answer.ok

throwsOnResponseNever(resOk) == FALSE

\* if (!res.ok) throw new Error(...)
throwsOnResponse(resOk) == ~resOk

\* The POST to /update-price and what follows it inside the try block.
\* resOk: the handler answered 2xx; dbOk: its write of the products row
\* succeeded (an error there is printed and the answer is still ok).
\* fetchCalls records each request with the answer it got.
ApplyPrice ==
  /\ pc = "apply"
  /\ \E r \in RemoteAnswers, dbOk \in BOOLEAN, insertOk \in BOOLEAN :
     LET answer == updatePrice(Shop, P.shopify_product_id, newPrice, r)
         resOk == answer.ok
     IN
       /\ Reached(r)
       /\ ~resOk => dbOk /\ insertOk
       /\ CanAnswer(<< dbOk, insertOk >>) /\ Charge(<< dbOk, insertOk >>)
       /\ fetchCalls' = Append(fetchCalls,
                               [shop |-> Shop,
                                product_id |-> P.shopify_product_id,
                                new_price |-> newPrice, ok |-> resOk])
       /\ products' = IF writesPrice(answer) /\ dbOk
                      THEN SetPrice(products, Shop, P.shopify_product_id, newPrice)
                      ELSE products
       /\ applied' = applied + (IF throwsOnResponse(resOk) THEN 0 ELSE 1)
       /\ logAIAction(IF throwsOnResponse(resOk) THEN << >>
                      ELSE << AppliedRow(P, newPrice, modeOfRun(mode, shops), risk) >>,
                      insertOk)
  /\ pc' = "marketing"
  /\ UNCHANGED << trail, product_performance, seasonal_events, shops, ai_feedback,
                  config, idx, body, analyzed, priceSuggestions,
                  skippedDueToFeedback, marketingSuggestions, result >>

AdSkipRow(p, pf, risk_) ==
  ActionRow(p.shopify_product_id, "ad_boost_skipped_due_to_feedback",
            [conv |-> convOf(pf), margin |-> marginOf(pf), risk |-> risk_],
            << "Skipped ad boost due to repeated user rejection." >>, "skipped")

AdBoostRow(p, pf, ev, risk_, trend) ==
  ActionRow(p.shopify_product_id, "ad_boost_suggested",
            [conv |-> convOf(pf), margin |-> marginOf(pf), risk |-> risk_,
             event |-> ev.name],
            << "strong_performance" >>
            \o (IF ev.present THEN << "seasonal_campaign" >> ELSE << >>)
            \o (IF trend.approved >= 2 /\ risk_ = "aggressive"
                THEN << "high_confidence" >> ELSE << >>),
            "suggested")

adSkipsOfUncounted(winner, suppress) == 0

\* skippedDueToFeedback++ stands in the branch that logs the ad-boost skip.
adSkipsOf(winner, suppress) == IF winner /\ suppress THEN 1 ELSE 0

\* 4b. Marketing / ad boost, then the next product or the end of the loop.
loopStopsOneEarly(i, n) == i + 1 < n

\* for (const p of products): another product follows the i-th of n.
loopContinues(i, n) == i < n

Marketing ==
  /\ pc = "marketing"
  /\ \E readOk \in BOOLEAN, insertOk \in BOOLEAN :
       LET winner == isWinner(P, perf, activeEvent)
           adTrend == getFeedbackTrends(ai_feedback, Shop, P.shopify_product_id,
                                        "ad_boost_suggested", readOk)
           suppress == gateSuppresses(adTrend)
       IN /\ ~winner => readOk /\ insertOk
          /\ CanAnswer(<< readOk, insertOk >>) /\ Charge(<< readOk, insertOk >>)
          /\ skippedDueToFeedback' =
               skippedDueToFeedback + adSkipsOf(winner, suppress)
          /\ marketingSuggestions' =
               marketingSuggestions + (IF winner /\ ~suppress THEN 1 ELSE 0)
          /\ logAIAction(IF ~winner THEN << >>
                         ELSE IF suppress THEN << AdSkipRow(P, perf, risk) >>
                         ELSE << AdBoostRow(P, perf, activeEvent, risk, adTrend) >>,
                         insertOk)
          /\ IF ~logAIActionReturns(insertOk)
             THEN idx' = idx /\ pc' = "failed"
             ELSE IF loopContinues(idx, Len(runProducts))
             THEN idx' = idx + 1 /\ pc' = "perf"
             ELSE idx' = idx /\ pc' = "return"
  /\ UNCHANGED << trail, stores, config, body, analyzed, priceSuggestions, applied,
                  result, fetchCalls >>

\* GET /api/autopilot/run: the answer built from the outcome of runAutopilot.
httpResponse(res) ==
  IF res.state = "returned"
  THEN [status |-> 200, ok |-> TRUE, error |-> ""]
  ELSE [status |-> 500, ok |-> FALSE, error |-> res.error]

\* The summary returned to the caller.
Return ==
  /\ pc = "return"
  /\ result' = [state |-> "returned", ok |-> TRUE, analyzed |-> analyzed,
                price_suggestions |-> priceSuggestions, applied |-> applied,
                skipped_due_to_feedback |-> skippedDueToFeedback,
                marketing_suggestions |-> marketingSuggestions, error |-> ""]
  /\ pc' = "done"
  /\ UNCHANGED << trail, stores, ai_actions, config, idx, body, counters, logCalls,
                  fetchCalls, faults >>

Next ==
  \/ ReadEvents
  \/ ReadShop
  \/ ReadProducts
  \/ ReadPerf
  \/ PriceDecision
  \/ ApplyPrice
  \/ Marketing
  \/ Return

Spec == Init /\ [][Next]_vars

\* GET /api/autopilot/run is called again for the shop once the first run
\* has returned: a new run over the tables as the first run left them.
RunAgain ==
  /\ pc = "done" /\ run = 1
  /\ run' = 2 /\ previous' = decisions /\ decisions' = << >>
  /\ pc' = "events"
  /\ activeEvent' = NoEvent /\ mode' = "" /\ risk' = "" /\ runProducts' = << >>
  /\ idx' = 0
  /\ perf' = NoPerf /\ newPrice' = 0 /\ priceChanged' = FALSE
  /\ priceTrend' = NoTrend
  /\ analyzed' = 0 /\ priceSuggestions' = 0 /\ applied' = 0
  /\ skippedDueToFeedback' = 0 /\ marketingSuggestions' = 0
  /\ result' = NoResult
  /\ logCalls' = << >> /\ fetchCalls' = << >>
  /\ UNCHANGED << stores, ai_actions, faults, updateCalls, other, priceCalls,
                  adviceCalls >>

NextRerun == Next \/ RunAgain

InitOfRerun == InitRun /\ InitRerun

RerunSpec == InitOfRerun /\ [][NextRerun]_vars

\* The status values a request to POST /update carries; "" stands for a
\* request without status.
ReviewStatuses == { "", "approved", "rejected", "pending", "completed" }

feedbackOfRejectedOnly(actionData, status) ==
  [shop_domain |-> actionData.shop_domain,
   product_id |-> actionData.product_id,
   action |-> actionData.action,
   feedback |-> IF status = "rejected" THEN "rejected" ELSE "approved"]

\* The ai_feedback row POST /update derives from the action it updated.
feedbackOf(actionData, status) ==
  [shop_domain |-> actionData.shop_domain,
   product_id |-> actionData.product_id,
   action |-> actionData.action,
   feedback |-> IF status = "approved" THEN "approved" ELSE "rejected"]

\* POST /update of the review workflow: id 0 stands for a request without
\* id (400, as without status); the update of a row that does not exist, or that fails,
\* answers 500; the error of the feedback insert is printed and the answer
\* is still ok.
PostUpdate ==
  /\ Len(updateCalls) < MaxReviews
  /\ \E id \in 0..(Len(ai_actions) + 1), status \in ReviewStatuses,
        updateOk \in BOOLEAN, insertOk \in BOOLEAN :
       LET found == id \in DOMAIN ai_actions /\ status # ""
           updated == found /\ updateOk
       IN /\ ~found => updateOk
          /\ ~updated => insertOk
          /\ CanAnswer(<< updateOk, insertOk >>)
          /\ Charge(<< updateOk, insertOk >>)
          /\ ai_actions' = IF updated
                           THEN [ai_actions EXCEPT ![id].status = status]
                           ELSE ai_actions
          /\ ai_feedback' = IF updated /\ insertOk
                            THEN Append(ai_feedback,
                                        feedbackOf(ai_actions[id], status))
                            ELSE ai_feedback
          /\ updateCalls' =
               Append(updateCalls,
                      [id |-> id, status |-> status, ok |-> updated,
                       code |-> IF id = 0 \/ status = "" THEN 400
                                ELSE IF updated THEN 200 ELSE 500])
  /\ UNCHANGED << products, product_performance, seasonal_events, shops, pc,
                  config, idx, body, counters, result, logCalls, fetchCalls,
                  run, decisions, previous, other, priceCalls, adviceCalls >>

NextReview == Next \/ PostUpdate

InitOfReview == InitRun /\ InitReview

ReviewSpec == InitOfReview /\ [][NextReview]_vars

\* POST /api/shopify/mode and POST /api/shopify/risk: the row of the shop
\* gets the new value; a failed update changes nothing and answers 500.
PostMode ==
  /\ shops.present
  /\ \E m \in Modes : m # shops.autopilot_mode
                       /\ shops' = [shops EXCEPT !.autopilot_mode = m]
  /\ UNCHANGED << products, product_performance, seasonal_events, ai_feedback,
                  ai_actions, pc, config, idx, body, counters, result,
                  logCalls, fetchCalls, faults, trail >>

PostRisk ==
  /\ shops.present
  /\ \E r \in Risks : r # shops.risk_level
                       /\ shops' = [shops EXCEPT !.risk_level = r]
  /\ UNCHANGED << products, product_performance, seasonal_events, ai_feedback,
                  ai_actions, pc, config, idx, body, counters, result,
                  logCalls, fetchCalls, faults, trail >>

NextConfig == Next \/ PostMode \/ PostRisk

InitOfConfig == InitRun /\ InitLoop

ConfigSpec == InitOfConfig /\ [][NextConfig]_vars

\* The locals of the run that is taking its steps.
RunLocals ==
  [pc |-> pc, activeEvent |-> activeEvent, mode |-> mode, risk |-> risk,
   runProducts |-> runProducts, idx |-> idx, perf |-> perf,
   newPrice |-> newPrice, priceChanged |-> priceChanged,
   priceTrend |-> priceTrend, analyzed |-> analyzed,
   priceSuggestions |-> priceSuggestions, applied |-> applied,
   skippedDueToFeedback |-> skippedDueToFeedback,
   marketingSuggestions |-> marketingSuggestions, result |-> result,
   logCalls |-> logCalls, fetchCalls |-> fetchCalls, run |-> run,
   decisions |-> decisions, previous |-> previous]

runAdmittedWhenIdle(busy) == ~busy

\* GET /api/autopilot/run calls runAutopilot for every request, whether or
\* not a run of the shop is in progress.
runAdmitted(busy) == TRUE

\* A second request to GET /api/autopilot/run arrives for the shop.
Trigger ==
  /\ other.pc = "none"
  /\ runAdmitted(pc \notin { "done", "failed" })
  /\ other' = [other EXCEPT !.pc = "events"]
  /\ UNCHANGED << stores, ai_actions, pc, config, idx, body, counters, result,
                  logCalls, fetchCalls, faults, run, decisions, previous,
                  updateCalls, priceCalls, adviceCalls >>

\* The run that takes its steps is suspended at an await and the other run
\* of the shop goes on from where it was suspended.
Switch ==
  /\ other.pc \notin { "none", "done", "failed" }
  /\ other' = RunLocals
  /\ pc' = other.pc
  /\ activeEvent' = other.activeEvent /\ mode' = other.mode
  /\ risk' = other.risk /\ runProducts' = other.runProducts
  /\ idx' = other.idx
  /\ perf' = other.perf /\ newPrice' = other.newPrice
  /\ priceChanged' = other.priceChanged /\ priceTrend' = other.priceTrend
  /\ analyzed' = other.analyzed /\ priceSuggestions' = other.priceSuggestions
  /\ applied' = other.applied
  /\ skippedDueToFeedback' = other.skippedDueToFeedback
  /\ marketingSuggestions' = other.marketingSuggestions
  /\ result' = other.result
  /\ logCalls' = other.logCalls /\ fetchCalls' = other.fetchCalls
  /\ run' = other.run /\ decisions' = other.decisions
  /\ previous' = other.previous
  /\ UNCHANGED << stores, ai_actions, faults, updateCalls, priceCalls,
                  adviceCalls >>

NextOverlap == Next \/ Trigger \/ Switch

InitOfOverlap == InitRun /\ InitOverlap

OverlapSpec == InitOfOverlap /\ [][NextOverlap]_vars

InitOfEvents == InitRun /\ InitEvents

EventSpec == InitOfEvents /\ [][Next]_vars

\* A client posts to /update-price: with or without shop and product id,
\* with no price or a price of two decimals.
PostUpdatePrice ==
  /\ Len(priceCalls) < MaxPriceCalls
  /\ \E shop \in { "", Shop }, product_id \in 0..MaxProducts,
        new_price \in { 0, 20000 }, r \in RemoteAnswers, dbOk \in BOOLEAN :
       LET answer == updatePrice(shop, product_id, new_price, r)
       IN /\ Reached(r)
          /\ answer.status = 400 => r = [token |-> TRUE, product |-> TRUE,
                                         variant |-> TRUE, put |-> TRUE]
          /\ ~writesPrice(answer) => dbOk
          /\ CanAnswer(<< dbOk >>) /\ Charge(<< dbOk >>)
          /\ products' = IF writesPrice(answer) /\ dbOk
                         THEN SetPrice(products, shop, product_id, new_price)
                         ELSE products
          /\ priceCalls' =
               Append(priceCalls,
                      [shop |-> shop, product_id |-> product_id,
                       new_price |-> new_price, met |-> r,
                       status |-> answer.status, ok |-> answer.ok,
                       remote |-> answer.remote])
  /\ UNCHANGED << product_performance, seasonal_events, shops, ai_feedback,
                  ai_actions, pc, config, idx, body, counters, result,
                  logCalls, fetchCalls, run, decisions, previous, updateCalls,
                  other, adviceCalls >>

NextPriceUpdate == Next \/ PostUpdatePrice

InitOfPriceUpdate == InitRun /\ InitReview

PriceUpdateSpec == InitOfPriceUpdate /\ [][NextPriceUpdate]_vars

\* GET /advice. Below MinFeedback rows the defaults stay; the approval rate
\* approved / total is compared with 0.7 and 0.3, here in tenths.
MinFeedback == 10
HighApproval == 7
LowApproval == 3

mostlyApprovedStrictly(approved, total) == approved * 10 > HighApproval * total

\* approvalRate >= 0.7
mostlyApproved(approved, total) == approved * 10 >= HighApproval * total

\* approvalRate <= 0.3
mostlyRejected(approved, total) == approved * 10 <= LowApproval * total

\* The answer of GET /advice for the rows the query returned.
adviceOf(data) ==
  LET total == Len(data)
      approved == CountFeedback(data, "approved")
      rejected == CountFeedback(data, "rejected")
      recommended ==
        IF total < MinFeedback THEN << "assist", "normal" >>
        ELSE IF mostlyApproved(approved, total) THEN << "full", "aggressive" >>
        ELSE IF mostlyRejected(approved, total) THEN << "assist", "safe" >>
        ELSE << "assist", "normal" >>
  IN [status |-> 200, ok |-> TRUE, total |-> total, approved |-> approved,
      rejected |-> rejected, recommended_mode |-> recommended[1],
      recommended_risk |-> recommended[2]]

AdviceError(code) ==
  [status |-> code, ok |-> FALSE, total |-> 0, approved |-> 0, rejected |-> 0,
   recommended_mode |-> "", recommended_risk |-> ""]

\* A request to GET /advice: without shop it gets 400, with a failed read
\* of ai_feedback 500, else the advice for the rows of the shop.
GetAdvice ==
  /\ Len(adviceCalls) < MaxAdviceCalls
  /\ \E shop \in { "", Shop, "s2.myshopify.com" }, readOk \in BOOLEAN :
       /\ shop = "" => readOk
       /\ CanAnswer(<< readOk >>) /\ Charge(<< readOk >>)
       /\ adviceCalls' =
            Append(adviceCalls,
                   [shop |-> shop,
                    answer |->
                      IF shop = "" THEN AdviceError(400)
                      ELSE IF ~readOk THEN AdviceError(500)
                      ELSE adviceOf(SelectSeq(ai_feedback,
                                              LAMBDA f : f.shop_domain = shop))])
  /\ UNCHANGED << stores, ai_actions, pc, config, idx, body, counters, result,
                  logCalls, fetchCalls, run, decisions, previous, updateCalls,
                  other, priceCalls >>

NextAdvice == Next \/ GetAdvice

InitOfAdvice == InitRun /\ InitAdvice

AdviceSpec == InitOfAdvice /\ [][NextAdvice]_vars

\* Every awaited call of a run returns, with a result or with an error, so a
\* run that can take a step eventually takes one.
InitOfLoop == InitRun /\ InitLoop

FairSpec == InitOfLoop /\ [][Next]_vars /\ WF_vars(Next)

\* ================================================================ claims
CallsFor(pid, action) ==
  { k \in DOMAIN logCalls :
      logCalls[k].product_id = pid /\ logCalls[k].action = action }

FetchesFor(pid) ==
  { k \in DOMAIN fetchCalls : fetchCalls[k].product_id = pid }

\* The price decision of the current product has been taken.
Decided == pc \in { "apply", "marketing" }

\* The stored feedback rows of (shop, pid, action) with the given verdict.
StoredFeedback(pid, action, fb) ==
  Cardinality({ k \in DOMAIN ai_feedback :
                  /\ ai_feedback[k].shop_domain = Shop
                  /\ ai_feedback[k].product_id = pid
                  /\ ai_feedback[k].action = action
                  /\ ai_feedback[k].feedback = fb })

\* C1: every price_applied call of logAIAction is preceded, in the same run,
\* by a call for the same shop and product with status 'suggested' that
\* carries the same new price and the product's old price.
C1_AppliedWasSuggested ==
  \A j \in DOMAIN logCalls :
    logCalls[j].action = "price_applied" =>
      \E k \in 1..(j - 1) :
        /\ logCalls[k].action = "price_adjustment"
        /\ logCalls[k].shop_domain = logCalls[j].shop_domain
        /\ logCalls[k].product_id = logCalls[j].product_id
        /\ logCalls[k].status = "suggested"
        /\ logCalls[k].details.new_price = logCalls[j].details.new_price
        /\ \E n \in DOMAIN runProducts :
             /\ runProducts[n].shopify_product_id = logCalls[j].product_id
             /\ logCalls[k].details.old_price = runProducts[n].price

\* C2: a product whose price suggestion the feedback gate suppresses gets one
\* price_skipped_due_to_feedback call with status 'skipped' and one increment
\* of the skipped counter, and no price update request, price_adjustment or
\* price_applied, in every mode.
C2_SuppressedStep ==
  (pc = "price" /\ pc' # "price"
   /\ priceTrend'.rejected > 2 * priceTrend'.approved) =>
    /\ pc' = "marketing"
    /\ skippedDueToFeedback' = skippedDueToFeedback + 1
    /\ Len(logCalls') = Len(logCalls) + 1
    /\ logCalls'[Len(logCalls')].action = "price_skipped_due_to_feedback"
    /\ logCalls'[Len(logCalls')].status = "skipped"
    /\ logCalls'[Len(logCalls')].product_id = P.shopify_product_id
    /\ logCalls'[Len(logCalls')].shop_domain = Shop
    /\ fetchCalls' = fetchCalls

C2_SkippedNeverPriced ==
  \A k \in DOMAIN logCalls :
    logCalls[k].action = "price_skipped_due_to_feedback" =>
      /\ Cardinality(CallsFor(logCalls[k].product_id,
                              "price_skipped_due_to_feedback")) = 1
      /\ CallsFor(logCalls[k].product_id, "price_adjustment") = {}
      /\ CallsFor(logCalls[k].product_id, "price_applied") = {}
      /\ FetchesFor(logCalls[k].product_id) = {}

C2_SuppressedOnlySkipped ==
  [][C2_SuppressedStep]_vars /\ []C2_SkippedNeverPriced

\* C2 witness: in full mode with an applicable risk, a product with a
\* candidate change was suppressed and its skip has been logged.
C2_Witness ==
  /\ pc = "marketing" /\ mode = "full" /\ risk # "safe" /\ priceChanged
  /\ priceTrend.rejected > 2 * priceTrend.approved
  /\ CallsFor(P.shopify_product_id, "price_skipped_due_to_feedback") # {}

\* C3: under risk safe or normal the price decision skips the product if and
\* only if rejected > 2 x approved, where the counts are those of the stored
\* rows of (shop, product, price_adjustment) when the read succeeds; at
\* rejected = 2 x approved it does not skip.
C3_GateStep ==
  (pc = "price" /\ pc' # "price" /\ risk \in { "safe", "normal" }) =>
    LET a == priceTrend'.approved
        r == priceTrend'.rejected
        skipped == /\ Len(logCalls') > Len(logCalls)
                   /\ logCalls'[Len(logCalls')].action
                        = "price_skipped_due_to_feedback"
    IN /\ skipped <=> r > 2 * a
       /\ r = 2 * a => ~skipped
       /\ faults' = faults =>
            /\ a = StoredFeedback(P.shopify_product_id, "price_adjustment", "approved")
            /\ r = StoredFeedback(P.shopify_product_id, "price_adjustment", "rejected")

C3_GateTwiceApproved == [][C3_GateStep]_vars

\* C3 witness: under safe or normal risk a product at the boundary
\* rejected = 2 x approved > 0 passed the gate and was suggested.
C3_Witness ==
  /\ Decided /\ risk \in { "safe", "normal" }
  /\ priceTrend.approved > 0
  /\ priceTrend.rejected = 2 * priceTrend.approved
  /\ CallsFor(P.shopify_product_id, "price_adjustment") # {}
  /\ CallsFor(P.shopify_product_id, "price_skipped_due_to_feedback") = {}

\* C4: under risk aggressive the price decision and the ad-boost decision
\* skip the product if and only if rejected > 5 x approved.
C4_AggressiveGateStep ==
  /\ (pc = "price" /\ pc' # "price" /\ risk = "aggressive") =>
       ((/\ Len(logCalls') > Len(logCalls)
         /\ logCalls'[Len(logCalls')].action = "price_skipped_due_to_feedback")
        <=> priceTrend'.rejected > 5 * priceTrend'.approved)
  /\ (pc = "marketing" /\ pc' # "marketing" /\ risk = "aggressive"
      /\ faults' = faults /\ isWinner(P, perf, activeEvent)) =>
       ((/\ Len(logCalls') > Len(logCalls)
         /\ logCalls'[Len(logCalls')].action = "ad_boost_skipped_due_to_feedback")
        <=> StoredFeedback(P.shopify_product_id, "ad_boost_suggested", "rejected")
              > 5 * StoredFeedback(P.shopify_product_id, "ad_boost_suggested", "approved"))

C4_GateFiveTimesApproved == [][C4_AggressiveGateStep]_vars

\* C5: a product without feedback rows is never skipped by the price gate or
\* the ad-boost gate; a feedback read that fails yields the counts 0/0, does
\* not skip the product, and the loop goes on: a run that got its products
\* returns a summary that counts every product.
C5_NoFeedbackStep ==
  /\ (pc = "price" /\ pc' # "price") =>
       /\ \/ priceTrend' = NoTrend
          \/ /\ priceTrend'.approved
                  = StoredFeedback(P.shopify_product_id, "price_adjustment", "approved")
             /\ priceTrend'.rejected
                  = StoredFeedback(P.shopify_product_id, "price_adjustment", "rejected")
       /\ priceTrend' = NoTrend =>
            /\ CallsFor(P.shopify_product_id, "price_skipped_due_to_feedback") = {}
            /\ skippedDueToFeedback' = skippedDueToFeedback
            /\ \A k \in DOMAIN logCalls' :
                 logCalls'[k].product_id = P.shopify_product_id
                   => logCalls'[k].action # "price_skipped_due_to_feedback"
            /\ pc' \in { "apply", "marketing" }
  /\ (/\ pc = "marketing" /\ pc' # "marketing"
      /\ StoredFeedback(P.shopify_product_id, "ad_boost_suggested", "approved") = 0
      /\ StoredFeedback(P.shopify_product_id, "ad_boost_suggested", "rejected") = 0) =>
       /\ skippedDueToFeedback' = skippedDueToFeedback
       /\ \A k \in DOMAIN logCalls' :
            logCalls'[k].product_id = P.shopify_product_id
              => logCalls'[k].action # "ad_boost_skipped_due_to_feedback"
  /\ pc' \in { "perf", "return" } => pc = "marketing" \/ pc = "products"
  /\ pc' = "failed" => pc = "products"
  /\ pc' = "done" => result'.state = "returned"
                     /\ result'.analyzed = Len(runProducts)

C5_NoFeedbackNeverSuppresses == [][C5_NoFeedbackStep]_vars

\* C5 witness: the feedback read of a product with more than twice as many
\* rejections as approvals failed, the product was not skipped, and the run
\* has returned its summary.
C5_Witness ==
  /\ pc = "done" /\ result.state = "returned"
  /\ priceTrend = NoTrend
  /\ StoredFeedback(P.shopify_product_id, "price_adjustment", "rejected")
       > 2 * StoredFeedback(P.shopify_product_id, "price_adjustment", "approved")
  /\ CallsFor(P.shopify_product_id, "price_skipped_due_to_feedback") = {}
  /\ CallsFor(P.shopify_product_id, "price_adjustment") # {}

\* C6: a product without a performance snapshot, with inventory >= 5 and no
\* matching event, gets a candidate price equal to its current price, and no
\* price suggestion is logged for it.
C6_NoSnapshotNoChange ==
  (/\ Decided /\ ~perf.present
   /\ P.inventory_quantity >= 5
   /\ ~matchesEvent(P, activeEvent)) =>
    /\ newPrice = parseFloat(P.price)
    /\ CallsFor(P.shopify_product_id, "price_adjustment") = {}

\* C7: when a keyword of the active event occurs in the title up to case, the
\* candidate price is the current price x 1.15 rounded to 2 decimals,
\* whatever the snapshot, the inventory and the risk level.
C7_SeasonalOverrides ==
  (Decided /\ matchesEvent(P, activeEvent)) =>
    newPrice = Round2(Times(Num(parseFloat(P.price)), 115))

\* C8: with conversion rate < 0.02, inventory < 5 and no matching event, the
\* candidate price is the current price x 1.10 rounded to 2 decimals, for
\* every risk level.
C8_LowInventoryWins ==
  (/\ Decided /\ perf.present /\ perf.conversion_rate < 20
   /\ P.inventory_quantity < 5
   /\ ~matchesEvent(P, activeEvent)) =>
    newPrice = Round2(Times(Num(parseFloat(P.price)), 110))

\* C9: when none of the four rule conditions holds, the candidate price is
\* the current price exactly, also for a stored price with more than 2
\* fractional digits, and no price_adjustment is logged for the product.
C9_NoRuleNoChange ==
  (/\ Decided
   /\ ~(marginOf(perf) > 250 /\ convOf(perf) > 80)
   /\ ~(convOf(perf) < 20)
   /\ P.inventory_quantity >= 5
   /\ ~matchesEvent(P, activeEvent)) =>
    /\ newPrice = parseFloat(P.price)
    /\ ~priceChanged
    /\ CallsFor(P.shopify_product_id, "price_adjustment") = {}

\* C10: the candidate price of a product does not depend on the risk level:
\* evaluating the rule engine on the same product, snapshot and event under
\* any risk level gives the candidate price the run computed.
C10_BasePriceIgnoresRisk ==
  Decided =>
    \A r \in Risks : calculateOptimalPrice(P, perf, activeEvent, r) = newPrice

\* ------------------------------------------------------------ risk scaling
\* The candidate of the current product at scale factor 1.0.
basePrice == calculateOptimalPrice(P, perf, activeEvent, "normal")

\* Twice the scale factor of a risk level: 0.5, 1.0, 1.5.
twiceFactor(r) == IF r = "safe" THEN 1 ELSE IF r = "aggressive" THEN 3 ELSE 2

\* old + (base - old) * f, rounded to two decimals.
scaledPrice(old, base, r) ==
  Round2([num |-> 2 * old + (base - old) * twiceFactor(r), den |-> 2])

\* C11: the candidate price of a product is old + (base - old) * f rounded to
\* two decimals, with f = 0.5 under safe, 1.0 under normal and 1.5 under
\* aggressive (100.00 with base 108.00 gives 104.00, 108.00, 112.00).
C11_RiskScalesDelta ==
  Decided => newPrice = scaledPrice(parseFloat(P.price), basePrice, risk)

C13_BaseEqualsOldNoChange ==
  (Decided /\ basePrice = parseFloat(P.price)) =>
    /\ newPrice = parseFloat(P.price)
    /\ ~priceChanged
    /\ CallsFor(P.shopify_product_id, "price_adjustment") = {}

\* ------------------------------------------------------------ applying
\* The shop configuration has been read.
Configured == pc \notin { "events", "shop" }

C14_NothingApplied ==
  (Configured /\ mode \in { "manual", "assist" }) =>
    /\ fetchCalls = << >>
    /\ applied = 0
    /\ \A k \in DOMAIN logCalls :
         /\ logCalls[k].action # "price_applied"
         /\ logCalls[k].action = "price_adjustment" =>
              logCalls[k].status = "suggested"
    /\ pc = "done" => result.applied = 0

\* C14: in mode manual or assist a run never calls the external price
\* update, never logs price_applied, never changes a stored product price
\* and returns applied = 0; every price suggestion it logs has status
\* 'suggested'.
C14_ManualAssistNeverApply ==
  /\ []C14_NothingApplied
  /\ [][mode' \in { "manual", "assist" } => products' = products]_vars

C14_Witness ==
  /\ pc = "done"
  /\ mode = "assist"
  /\ result.price_suggestions > 0
  /\ \E k \in DOMAIN logCalls : logCalls[k].action = "price_adjustment"

\* C15: in mode full every product with a candidate price change that the
\* feedback gate does not suppress gets a request to the external price
\* update in the run, under every risk level, safe included.
C15_FullAlwaysAttempts ==
  (pc = "marketing" /\ mode = "full"
   /\ priceChanged /\ ~gateSuppresses(priceTrend)) =>
    FetchesFor(P.shopify_product_id) # {}

\* The requests to the external price update that were answered ok.
OkFetches == { k \in DOMAIN fetchCalls : fetchCalls[k].ok }

C16_FailedUpdateLeavesNoTrace ==
  /\ applied = Cardinality(OkFetches)
  /\ \A k \in DOMAIN fetchCalls :
       ~fetchCalls[k].ok =>
         LET pid == fetchCalls[k].product_id
         IN /\ CallsFor(pid, "price_applied") = {}
            /\ FetchesFor(pid) = { k }
            /\ \A j \in DOMAIN products :
                 products[j].shopify_product_id = pid =>
                   products[j].price = runProducts[j].price
  /\ pc = "done" => analyzed = Len(runProducts)

C16_FailedUpdateStep ==
  (pc = "apply" /\ ~fetchCalls'[Len(fetchCalls')].ok) =>
    /\ applied' = applied
    /\ products' = products
    /\ logCalls' = logCalls
    /\ pc' = "marketing"

\* C16: when the external price update of a product fails in mode full, the
\* run logs no price_applied for the product, leaves the applied counter and
\* the stored price unchanged, sends no second request for the product and
\* goes on to the remaining steps and products.
C16_FailedUpdateIsSkipped ==
  /\ []C16_FailedUpdateLeavesNoTrace
  /\ [][C16_FailedUpdateStep]_vars

C16_Witness ==
  /\ pc = "done"
  /\ mode = "full"
  /\ Len(runProducts) = 2
  /\ fetchCalls # << >>
  /\ fetchCalls[1].product_id = runProducts[1].shopify_product_id
  /\ ~fetchCalls[1].ok
  /\ analyzed = 2
  /\ CallsFor(runProducts[2].shopify_product_id, "price_adjustment") # {}

\* ------------------------------------------------------------ failures
\* The step called logAIAction and the insert failed.
WriteDropped ==
  Len(logCalls') - Len(logCalls) > Len(ai_actions') - Len(ai_actions)

C17_DroppedWriteStep ==
  WriteDropped =>
    /\ pc = "price" =>
         pc' = IF priceSuggestions' > priceSuggestions /\ autoApply(mode, risk)
               THEN "apply" ELSE "marketing"
    /\ pc = "apply" => pc' = "marketing"
    /\ pc = "marketing" =>
         IF idx < Len(runProducts)
         THEN pc' = "perf" /\ idx' = idx + 1
         ELSE pc' = "return"

C17_OnlyProductsAbort ==
  /\ pc = "failed" => logCalls = << >>
  /\ pc = "done" =>
       /\ result.state = "returned"
       /\ result.analyzed = Len(runProducts)

\* C17: the failure of one audit-log write does not abort the run: the
\* remaining steps of the product and the remaining products are evaluated
\* and the summary is returned.
C17_LogFailureNotFatal ==
  /\ [][C17_DroppedWriteStep]_vars
  /\ []C17_OnlyProductsAbort

C17_Witness ==
  /\ pc = "done"
  /\ result.state = "returned"
  /\ Len(runProducts) = 2
  /\ result.analyzed = 2
  /\ CallsFor(runProducts[1].shopify_product_id, "price_adjustment") # {}
  /\ \A k \in DOMAIN ai_actions :
       ai_actions[k].product_id # runProducts[1].shopify_product_id
  /\ \E k \in DOMAIN ai_actions :
       ai_actions[k].product_id = runProducts[2].shopify_product_id

\* The read of the products answered with an error, or with no row.
ProductsUnusable == pc = "products" /\ (faults' > faults \/ Len(products) = 0)

C18_AbortStep ==
  /\ ProductsUnusable => pc' = "failed"
  /\ pc \in { "events", "shop", "products" } => products' = products

C18_AbortedRun ==
  pc = "failed" =>
    /\ result.state = "thrown"
    /\ result.error # ""
    /\ analyzed = 0
    /\ ai_actions = << >>
    /\ logCalls = << >>
    /\ fetchCalls = << >>
    /\ httpResponse(result) =
         [status |-> 500, ok |-> FALSE, error |-> result.error]

\* C18: when the products of the shop cannot be read or there are none,
\* runAutopilot throws: no summary is returned, no ai_actions row is
\* written, no price update is requested, no stored price changes, and the
\* HTTP trigger answers with a failure.
C18_NoProductsAborts ==
  /\ [][C18_AbortStep]_vars
  /\ []C18_AbortedRun

C18_Witness ==
  /\ pc = "failed"
  /\ products = << >>
  /\ result.error = "No products found."
  /\ ~httpResponse(result).ok

\* The read of the shop row answered with an error.
ShopUnreadable == pc = "shop" /\ faults' > faults

C19_ShopAbortStep ==
  ShopUnreadable => (pc' = "failed" /\ result'.state = "thrown")

\* C19: when the configuration of the shop cannot be loaded the run aborts
\* with an error before any product is evaluated: no product is analyzed, no
\* action is logged and no price is applied.
C19_ShopUnreadableAborts == [][C19_ShopAbortStep]_vars

\* ------------------------------------------------------------ defaults
NoStoredMode == ~shops.present \/ shops.autopilot_mode = ""
NoStoredRisk == ~shops.present \/ shops.risk_level = ""

C20_DefaultsHold ==
  Configured =>
    /\ NoStoredMode =>
         /\ mode = "manual"
         /\ fetchCalls = << >>
         /\ applied = 0
         /\ \A k \in DOMAIN logCalls : logCalls[k].action # "price_applied"
    /\ NoStoredRisk => risk = "normal"

C20_DefaultGateStep ==
  (pc = "price" /\ NoStoredRisk) =>
    /\ faults' = faults =>
         priceTrend' =
           [approved |-> StoredFeedback(P.shopify_product_id,
                                        "price_adjustment", "approved"),
            rejected |-> StoredFeedback(P.shopify_product_id,
                                        "price_adjustment", "rejected")]
    /\ skippedDueToFeedback' > skippedDueToFeedback
         <=> priceTrend'.rejected > 2 * priceTrend'.approved

\* C20: a shop with no stored mode runs in mode manual and never applies a
\* price; a shop with no stored risk level runs with risk normal and its
\* price suggestions are suppressed exactly when rejected > 2 x approved.
C20_AbsentConfigDefaults ==
  /\ []C20_DefaultsHold
  /\ [][C20_DefaultGateStep]_vars
  /\ [][NoStoredMode => products' = products]_vars

C20_Witness ==
  /\ pc = "done"
  /\ shops = ShopRow("", "")
  /\ mode = "manual"
  /\ risk = "normal"
  /\ StoredFeedback(1, "price_adjustment", "approved") = 1
  /\ StoredFeedback(1, "price_adjustment", "rejected") = 3
  /\ CallsFor(1, "price_skipped_due_to_feedback") # {}
  /\ result.applied = 0

\* ------------------------------------------------------------ termination
C21_CountedOnceStep ==
  analyzed' # analyzed =>
    (pc = "perf" /\ analyzed' = analyzed + 1 /\ idx = analyzed')

C21_Loaded == pc = "perf" /\ idx = 1 /\ analyzed = 0

C21_Returned ==
  /\ pc = "done"
  /\ result.state = "returned"
  /\ result.analyzed = Len(runProducts)

\* C21: once a non-empty product set of N products is loaded, the run
\* terminates and returns a summary with analyzed = N, each product being
\* counted exactly once, whatever calls failed for single products.
C21_RunReturnsAllAnalyzed ==
  /\ C21_Loaded ~> C21_Returned
  /\ [][C21_CountedOnceStep]_vars

C21_Witness ==
  /\ C21_Returned
  /\ Len(runProducts) = 2
  /\ faults > 0
  /\ fetchCalls # << >>
  /\ \A k \in DOMAIN fetchCalls : ~fetchCalls[k].ok

\* ------------------------------------------------------------ running again
\* C22: a run that follows another run of the same shop, with no change of
\* feedback, snapshots, events or configuration in between, computes for
\* every product the base price and the gate verdict of the first run, in
\* every mode, full with successful price updates included.
C22_RerunSameDecisions ==
  (run = 2 /\ pc = "done") =>
    /\ Len(decisions) = Len(previous)
    /\ \A k \in DOMAIN decisions :
         /\ decisions[k].product_id = previous[k].product_id
         /\ decisions[k].base = previous[k].base
         /\ decisions[k].suppressed = previous[k].suppressed

\* ------------------------------------------------------------ review
\* The step is a request to POST /update that was answered ok.
UpdateAnswered ==
  /\ Len(updateCalls') = Len(updateCalls) + 1
  /\ updateCalls'[Len(updateCalls')].ok

C23_UpdateStep ==
  UpdateAnswered =>
    LET id == updateCalls'[Len(updateCalls')].id
    IN /\ Len(ai_feedback') = Len(ai_feedback) + 1
       /\ ai_feedback'[Len(ai_feedback')].shop_domain = ai_actions[id].shop_domain
       /\ ai_feedback'[Len(ai_feedback')].product_id = ai_actions[id].product_id
       /\ ai_feedback'[Len(ai_feedback')].action = ai_actions[id].action

\* C23: every request to POST /update that is answered ok creates exactly
\* one ai_feedback row, carrying the shop, product and action kind of the
\* action; no such request changes the status of the action without a
\* feedback row.
C23_OneFeedbackPerReview == [][C23_UpdateStep]_vars

\* ------------------------------------------------------------ frame
C24_AppendOnlyStep ==
  /\ ai_feedback' = ai_feedback
  /\ Len(ai_actions') >= Len(ai_actions)
  /\ SubSeq(ai_actions', 1, Len(ai_actions)) = ai_actions

\* C24: no step of a run inserts, updates or deletes an ai_feedback row, and
\* none updates or deletes an existing ai_actions row: the run only appends
\* rows to ai_actions.
C24_RunOnlyAppendsActions == [][C24_AppendOnlyStep]_vars

C24_Witness ==
  /\ pc = "done"
  /\ Len(ai_actions) >= 3
  /\ ai_feedback # << >>
  /\ \E k \in DOMAIN ai_actions : ai_actions[k].action = "price_applied"

\* ------------------------------------------------------------ monotone gate
\* The counts over every stored row of (shop, pid, action), old or new.
StoredTrend(pid, action) ==
  [approved |-> StoredFeedback(pid, action, "approved"),
   rejected |-> StoredFeedback(pid, action, "rejected")]

C25_CountsAllRowsStep ==
  /\ (pc = "price" /\ faults' = faults) =>
       priceTrend' = StoredTrend(P.shopify_product_id, "price_adjustment")
  /\ (pc = "marketing" /\ faults' = faults
      /\ skippedDueToFeedback' > skippedDueToFeedback) =>
       gateSuppresses(StoredTrend(P.shopify_product_id, "ad_boost_suggested"))

C25_MoreRejectionsStillSuppress ==
  (Decided /\ gateSuppresses(priceTrend)) =>
    \A r \in 0..(MaxRejected + MaxRejected) :
      r > priceTrend.rejected =>
        gateSuppresses([priceTrend EXCEPT !.rejected = r])

\* C25: the gate is monotone in rejections: with the approved count fixed, a
\* gate that suppresses at some rejected count suppresses at every greater
\* one; and the counts it tests are those of all stored feedback rows of the
\* (shop, product, action kind) triple, with no time window.
C25_GateMonotoneOverAllRows ==
  /\ [][C25_CountsAllRowsStep]_vars
  /\ []C25_MoreRejectionsStillSuppress

C25_Witness ==
  /\ Decided
  /\ gateSuppresses(priceTrend)
  /\ priceTrend = StoredTrend(P.shopify_product_id, "price_adjustment")
  /\ priceTrend.approved = 1
  /\ priceTrend.rejected = MaxRejected
  /\ Len(ai_feedback) > priceTrend.approved + priceTrend.rejected

\* ------------------------------------------------------------ gate and change
C26_NoChangeStep ==
  (pc = "price" /\ ~priceChanged') =>
    /\ skippedDueToFeedback' = skippedDueToFeedback
    /\ logCalls' = logCalls

\* C26: the price gate has an outcome only for a product whose candidate
\* differs from its current price: a product without a candidate change gets
\* no price_skipped_due_to_feedback call and does not count as skipped,
\* whatever its feedback history.
C26_GateOnlyOnChange == [][C26_NoChangeStep]_vars

\* ------------------------------------------------------------ statuses
StatusesOf(action) ==
  IF action = "price_adjustment" THEN { "suggested", "pending" }
  ELSE IF action = "price_applied" THEN { "completed" }
  ELSE IF action \in { "price_skipped_due_to_feedback",
                       "ad_boost_skipped_due_to_feedback" } THEN { "skipped" }
  ELSE IF action = "ad_boost_suggested" THEN { "suggested" }
  ELSE {}

\* C27: every row the run appends to ai_actions has a status among
\* suggested, pending, completed and skipped: suggested or pending for a
\* price_adjustment, completed for a price_applied, skipped for a skip row,
\* suggested for an ad_boost_suggested.
C27_StatusOfEachAction ==
  \A k \in DOMAIN ai_actions :
    ai_actions[k].status \in StatusesOf(ai_actions[k].action)

\* ------------------------------------------------------------ marketing
\* The calls of logAIAction about the ad boost of product pid.
AdCalls(pid) ==
  CallsFor(pid, "ad_boost_suggested")
  \cup CallsFor(pid, "ad_boost_skipped_due_to_feedback")

C28_MarketingStep ==
  /\ pc = "price" => pc' \in { "apply", "marketing" }
  /\ pc = "apply" => pc' = "marketing"
  /\ pc = "marketing" =>
       /\ AdCalls(P.shopify_product_id) = {}
       /\ Len(logCalls') = Len(logCalls)
                           + (IF isWinner(P, perf, activeEvent) THEN 1 ELSE 0)
       /\ \A k \in DOMAIN logCalls' \ DOMAIN logCalls :
            /\ logCalls'[k].product_id = P.shopify_product_id
            /\ logCalls'[k].action \in { "ad_boost_suggested",
                                        "ad_boost_skipped_due_to_feedback" }

C28_OneAdCallPerProduct ==
  pc = "done" =>
    \A k \in DOMAIN runProducts :
      Cardinality(AdCalls(runProducts[k].shopify_product_id)) <= 1

\* C28: the marketing decision of a product is taken whatever the outcome of
\* its price decision: a product that qualifies as a winner gets exactly one
\* call, ad_boost_suggested or ad_boost_skipped_due_to_feedback, and a
\* product that does not qualify gets none.
C28_MarketingAlwaysEvaluated ==
  /\ [][C28_MarketingStep]_vars
  /\ []C28_OneAdCallPerProduct

C28_Witness ==
  /\ pc = "done"
  /\ Len(runProducts) = 2
  /\ CallsFor(1, "price_skipped_due_to_feedback") # {}
  /\ CallsFor(1, "ad_boost_suggested") # {}
  /\ CallsFor(2, "price_adjustment") # {}
  /\ AdCalls(2) = {}

\* ------------------------------------------------------------ stored prices
\* The price_adjustment calls of the run for product pid with new price np.
SuggestedAt(pid, np) ==
  { k \in CallsFor(pid, "price_adjustment") :
      logCalls[k].details.new_price = np }

C29_StoredPriceStep ==
  products' # products =>
    /\ pc = "apply"
    /\ fetchCalls'[Len(fetchCalls')].ok
    /\ fetchCalls'[Len(fetchCalls')].product_id = P.shopify_product_id
    /\ SuggestedAt(P.shopify_product_id, newPrice) # {}
    /\ \A j \in DOMAIN products :
         IF products[j].shopify_product_id = P.shopify_product_id
         THEN /\ parseFloat(products'[j].price) = newPrice
              /\ products'[j] = [products[j] EXCEPT !.price = products'[j].price]
         ELSE products'[j] = products[j]

C29_StoredPricesOfRun ==
  pc \in { "perf", "price", "apply", "marketing", "return", "done" } =>
    \A j \in DOMAIN products :
      \/ products[j] = runProducts[j]
      \/ \E k \in OkFetches :
           /\ fetchCalls[k].product_id = products[j].shopify_product_id
           /\ parseFloat(products[j].price) = fetchCalls[k].new_price

\* C29: the stored price of a product is overwritten only after the external
\* price update of that product succeeded in the same run, and then with
\* exactly the new price the run logged; in every other case (no change,
\* suppressed, mode not full, update failed) every stored field of every
\* product is left unchanged.
C29_PriceWrittenOnlyAfterApply ==
  /\ [][C29_StoredPriceStep]_vars
  /\ []C29_StoredPricesOfRun

C29_Witness ==
  /\ pc = "done"
  /\ Len(products) = 2
  /\ products[1] = runProducts[1]
  /\ FetchesFor(1) # {}
  /\ products[2] # runProducts[2]
  /\ parseFloat(products[2].price) = 21990

\* ------------------------------------------------------------ configuration
C30_ConfigKeptStep ==
  (Configured /\ pc' # "events") =>
    /\ mode' = mode /\ risk' = risk
    /\ (pc = "price" /\ priceSuggestions' > priceSuggestions) =>
         pc' = IF autoApply(mode, risk) THEN "apply" ELSE "marketing"

C30_DetailsCarryConfig ==
  Configured =>
    \A k \in DOMAIN logCalls :
      /\ logCalls[k].action \in { "price_adjustment", "price_applied" } =>
           logCalls[k].details.mode = mode
      /\ logCalls[k].action # "price_skipped_due_to_feedback" =>
           logCalls[k].details.risk = risk

\* C30: the mode and the risk level of the shop are read once, before the
\* products: an update of either that lands while the run iterates does not
\* change the mode or risk the run uses for the remaining products, and
\* every row of the run carries the same mode and risk in its details.
C30_ConfigReadOnce ==
  /\ [][C30_ConfigKeptStep]_vars
  /\ []C30_DetailsCarryConfig

C30_Witness ==
  /\ pc = "marketing"
  /\ idx = 2
  /\ mode = "assist"
  /\ shops.autopilot_mode = "full"
  /\ shops.risk_level = "aggressive"
  /\ Cardinality(CallsFor(2, "price_adjustment")) = 1
  /\ FetchesFor(1) = {}
  /\ FetchesFor(2) = {}
  /\ \A k \in DOMAIN logCalls : logCalls[k].status # "pending_apply"

\* ------------------------------------------------------------ overlapping runs
\* The price updates of product pid that a run with these requests got
\* answered ok.
AppliedBy(fetches, pid) ==
  { k \in DOMAIN fetches : fetches[k].ok /\ fetches[k].product_id = pid }

C31_StaleApplyStep ==
  (pc = "apply" /\ run' = run /\ fetchCalls' # fetchCalls) =>
    /\ fetchCalls'[Len(fetchCalls')].new_price =
         calculateOptimalPrice(runProducts[idx], perf, activeEvent, risk)
    /\ runProducts' = runProducts

\* C31: nothing excludes a second run of a shop while a run is in progress:
\* the request is admitted at every point of the first run, and each run
\* requests the price it computed from the products as it loaded them,
\* whatever the other run has applied since; two runs in mode full can so
\* both update, and both log price_applied for, the same product from the
\* same starting price.
C31_RunsNotExcluded ==
  /\ [](other.pc = "none" => ENABLED Trigger)
  /\ [][C31_StaleApplyStep]_vars

C31_Witness ==
  /\ pc = "done" /\ other.pc = "done"
  /\ AppliedBy(fetchCalls, 1) # {}
  /\ AppliedBy(other.fetchCalls, 1) # {}
  /\ CallsFor(1, "price_applied") # {}
  /\ \E k \in DOMAIN other.logCalls :
       /\ other.logCalls[k].action = "price_applied"
       /\ other.logCalls[k].product_id = 1
  /\ runProducts = other.runProducts
  /\ fetchCalls[1].new_price = other.fetchCalls[1].new_price

\* ------------------------------------------------------ the event of a run
\* C32: the event a run uses is, of the events flagged active, the one with
\* the earliest start date.
C32_EarliestEventUsed ==
  (pc \notin { "events" } /\ activeEvent.present) =>
    \A e \in seasonal_events : activeEvent.start_date <= e.start_date

\* ------------------------------------------------------------- the counters
\* The calls of logAIAction of the run with the given action kind.
CallsOf(action) == { k \in DOMAIN logCalls : logCalls[k].action = action }

PriceSkips == Cardinality(CallsOf("price_skipped_due_to_feedback"))

\* C33: at every point of a run applied <= price_suggestions <= analyzed <=
\* number of products; a product is counted as price skipped or as price
\* suggested, never both, so price_suggestions plus the price skips never
\* exceeds analyzed.
C33_CountersOrdered ==
  /\ applied <= priceSuggestions
  /\ priceSuggestions <= analyzed
  /\ analyzed <= Len(runProducts)
  /\ \A pid \in 1..MaxProducts :
       Cardinality(CallsFor(pid, "price_skipped_due_to_feedback")
                   \cup CallsFor(pid, "price_adjustment")) <= 1
  /\ priceSuggestions = Cardinality(CallsOf("price_adjustment"))
  /\ priceSuggestions + PriceSkips <= analyzed

C33_Witness ==
  /\ pc = "done" /\ analyzed = 2 /\ Len(runProducts) = 2
  /\ priceSuggestions = 1 /\ applied = 1 /\ PriceSkips = 1

AdSkips == Cardinality(CallsOf("ad_boost_skipped_due_to_feedback"))

C34_CountersMatchCalls ==
  /\ skippedDueToFeedback = PriceSkips + AdSkips
  /\ marketingSuggestions = Cardinality(CallsOf("ad_boost_suggested"))

\* C34: the returned skipped_due_to_feedback is the number of price skips
\* plus the number of ad-boost skips the run handed to logAIAction, and
\* marketing_suggestions the number of ad_boost_suggested it handed over; the
\* same holds of the counters at every point of the run.
C34_SkippedCountsBothGates ==
  /\ C34_CountersMatchCalls
  /\ result.state = "returned" =>
       /\ result.skipped_due_to_feedback = PriceSkips + AdSkips
       /\ result.marketing_suggestions =
            Cardinality(CallsOf("ad_boost_suggested"))

C34_Witness ==
  /\ result.state = "returned"
  /\ result.analyzed = 1
  /\ result.skipped_due_to_feedback = 2
  /\ PriceSkips = 1 /\ AdSkips = 1

\* ------------------------------------------------------ the recorded verdict
\* The step is a request to POST /update that recorded a feedback row.
FeedbackRecorded ==
  /\ UpdateAnswered
  /\ Len(ai_feedback') = Len(ai_feedback) + 1

C35_VerdictStep ==
  FeedbackRecorded =>
    LET status == updateCalls'[Len(updateCalls')].status
        row == ai_feedback'[Len(ai_feedback')]
    IN /\ row.feedback = "approved" <=> status = "approved"
       /\ status # "approved" =>
            /\ row.feedback = "rejected"
            /\ getFeedbackTrends(ai_feedback', row.shop_domain, row.product_id,
                                 row.action, TRUE).rejected
                 = getFeedbackTrends(ai_feedback, row.shop_domain,
                                     row.product_id, row.action, TRUE).rejected + 1

\* C35: the feedback POST /update records is "approved" only when the
\* requested status is exactly "approved"; every other status records a
\* "rejected" row, which raises the rejected count a later run reads for the
\* action kind and product by one.
C35_OnlyApprovedApproves == [][C35_VerdictStep]_vars

C35_Witness ==
  \E k \in DOMAIN updateCalls, j \in DOMAIN ai_feedback :
    /\ updateCalls[k].status = "pending" /\ updateCalls[k].ok
    /\ ai_feedback[j].feedback = "rejected"
    /\ ai_feedback[j].action = "price_adjustment"
    /\ \A i \in DOMAIN updateCalls : updateCalls[i].status = "pending"

\* ------------------------------------------------------ what a gate reads
\* Feedback rows of another shop, another product or another action kind
\* than the gate of (pid, action) reads.
ForeignRows(pid, action) ==
  { [FeedbackRow(pid, action, fb) EXCEPT !.shop_domain = "s2.myshopify.com"] :
      fb \in { "approved", "rejected" } }
  \cup { FeedbackRow(pid + 1, action, fb) : fb \in { "approved", "rejected" } }
  \cup { FeedbackRow(pid, kind, fb) :
           kind \in { "price_adjustment", "ad_boost_suggested", "price_applied",
                      "price_skipped_due_to_feedback",
                      "ad_boost_skipped_due_to_feedback" } \ { action },
           fb \in { "approved", "rejected" } }

\* The stored feedback with enough copies of a row added to move any count
\* within the bounds across the threshold of the gate.
WithRows(row) == ai_feedback \o [k \in 1..(MaxRejected + 1) |-> row]

GateOn(rows, pid, action) ==
  gateSuppresses(getFeedbackTrends(rows, Shop, pid, action, TRUE))

C36_ForeignRowsStep ==
  /\ (pc = "price" /\ faults' = faults) =>
       \A row \in ForeignRows(P.shopify_product_id, "price_adjustment") :
         gateSuppresses(priceTrend')
           = GateOn(WithRows(row), P.shopify_product_id, "price_adjustment")
  /\ (pc = "marketing" /\ faults' = faults /\ isWinner(P, perf, activeEvent)) =>
       \A row \in ForeignRows(P.shopify_product_id, "ad_boost_suggested") :
         (skippedDueToFeedback' > skippedDueToFeedback)
           = GateOn(WithRows(row), P.shopify_product_id, "ad_boost_suggested")

\* C36: the decision of the price gate is the one the gate takes on the
\* stored feedback with rows of another shop, another product or another
\* action kind added, and so is the decision of the ad-boost gate: such rows
\* never change either decision.
C36_GatesReadOwnRowsOnly == [][C36_ForeignRowsStep]_vars

C36_Witness ==
  /\ pc = "done"
  /\ PriceSkips = 1 /\ AdSkips = 0
  /\ Cardinality(CallsOf("ad_boost_suggested")) = 1
  /\ \E k \in DOMAIN ai_feedback : ai_feedback[k].action = "price_applied"
  /\ \E k \in DOMAIN ai_feedback : ai_feedback[k].shop_domain # Shop
  /\ \E k \in DOMAIN ai_feedback : ai_feedback[k].product_id = 2
  /\ StoredFeedback(1, "ad_boost_suggested", "rejected") = 0

\* ------------------------------------------------------ POST /update-price
\* The step is a request of a client to POST /update-price.
PriceCalled == Len(priceCalls') = Len(priceCalls) + 1

C37_UpdatePriceStep ==
  PriceCalled =>
    LET c == priceCalls'[Len(priceCalls')]
        missing == c.shop = "" \/ c.product_id = 0 \/ c.new_price = 0
        failed == ~c.met.token \/ ~c.met.product \/ ~c.met.variant \/ ~c.met.put
    IN /\ missing => c.status = 400 /\ c.remote = 0
       /\ (~missing /\ failed) => ~c.ok /\ c.status \in { 401, 500 }
       /\ c.ok <=> c.status = 200
       /\ ~c.ok => products' = products
       /\ products' # products =>
            /\ c.ok /\ c.remote = 2 /\ c.met.put
            /\ products' = SetPrice(products, c.shop, c.product_id, c.new_price)

\* C37: POST /update-price writes the stored price only after the remote
\* variant update succeeded: without token, with a failed product fetch, a
\* product without variant or a failed variant update it answers not ok and
\* leaves the stored price as it was; a request without shop, product id or
\* new price (a new price of 0 included) gets 400 before any remote call.
C37_WriteOnlyAfterRemoteUpdate == [][C37_UpdatePriceStep]_vars

C37_Witness ==
  /\ priceCalls # << >>
  /\ priceCalls[1].ok /\ priceCalls[1].product_id = 1
  /\ Len(products) = 1
  /\ parseFloat(products[1].price) = 20000
  /\ fetchCalls = << >>

\* ------------------------------------------------------------ GET /advice
\* The stored feedback rows of a shop, and those of them with a verdict.
RowsOfShop(shop) ==
  { k \in DOMAIN ai_feedback : ai_feedback[k].shop_domain = shop }

ApprovedOfShop(shop) ==
  { k \in RowsOfShop(shop) : ai_feedback[k].feedback = "approved" }

C38_AdviceStep ==
  /\ shops' = shops
  /\ Len(adviceCalls') = Len(adviceCalls) + 1 =>
       LET c == adviceCalls'[Len(adviceCalls')]
           total == Cardinality(RowsOfShop(c.shop))
           approved == Cardinality(ApprovedOfShop(c.shop))
           advice == << c.answer.recommended_mode, c.answer.recommended_risk >>
       IN c.answer.ok =>
            /\ advice = << "full", "aggressive" >>
                 <=> (total >= 10 /\ approved * 10 >= 7 * total)
            /\ total < 10 => advice = << "assist", "normal" >>
            /\ (total >= 10 /\ approved * 10 <= 3 * total)
                 => advice = << "assist", "safe" >>
            /\ (total >= 10 /\ approved * 10 > 3 * total
                /\ approved * 10 < 7 * total)
                 => advice = << "assist", "normal" >>
            /\ c.answer.recommended_mode # "manual"

\* C38: GET /advice recommends full / aggressive exactly for a shop with at
\* least 10 feedback rows of which 70 % or more are approved; below 10 rows
\* it recommends assist / normal, from 10 rows on with 30 % or less approved
\* assist / safe and else assist / normal; it never recommends manual and no
\* step of it or of a run changes the stored mode or risk of the shop.
C38_AdviceThresholds == [][C38_AdviceStep]_vars

C38_Witness ==
  /\ adviceCalls # << >>
  /\ adviceCalls[1].answer.ok
  /\ adviceCalls[1].answer.total = 10
  /\ adviceCalls[1].answer.approved = 7
  /\ adviceCalls[1].answer.recommended_mode = "full"
  /\ adviceCalls[1].answer.recommended_risk = "aggressive"
  /\ shops.autopilot_mode = "manual"

====
